---- MODULE Spec2Model ----
(***************************************************************************)
(* A model of the boxing application: the boxer registry                   *)
(* (boxing/models/boxers_model.py) over the `boxers` table, and the ring   *)
(* simulator (boxing/models/ring_model.py).                                *)
(*                                                                         *)
(* Every call of the API is one action, which models the whole handler;    *)
(* SpecCreate alone splits create_boxer between its SELECT and its INSERT, *)
(* where a second client of the same store can get in.  `call` holds the   *)
(* last call and its arguments, `res` what it raised or returned.  The     *)
(* store is assumed reachable: sqlite3.connect() succeeds.                 *)
(***************************************************************************)
EXTENDS Integers, Sequences, FiniteSets, TLC

VARIABLES
    boxers,     \* the boxers table: id -> row
    ring,       \* RingModel.ring: a sequence of Boxer snapshots
    pending,    \* per client, the create_boxer call that has passed its
                \* name pre-check and has not yet executed its INSERT
    call,       \* the last call: [op, arg]
    res         \* its outcome: [exc, msg, val, conns, drew]

vars == <<boxers, ring, pending, call, res>>

----------------------------------------------------------------------------
(* Bounds of the model *)

MaxId == 2              \* ids the store hands out are 1..MaxId
MaxFights == 2          \* the fights counted in the store are not driven beyond this
MaxProbeWeight == 260   \* get_weight_class is probed on -5..MaxProbeWeight

(* Constants of the program *)

MIN_WEIGHT == 125
MIN_AGE == 18
MAX_AGE == 40
HEAVYWEIGHT_MIN == 203
MIDDLEWEIGHT_MIN == 166
LIGHTWEIGHT_MIN == 133
FEATHERWEIGHT_MIN == 125
YOUNG_AGE == 25
OLD_AGE == 35

(* Inputs the callers draw from *)

Names == {"Al", "Bo"}
Ids == 1..MaxId
Clients == {"c1", "c2"}
Results == {"win", "loss", "draw"}
SortKeys == {"wins", "win_pct", "fights"}
Draws == {0, 4, 5, 9}           \* get_random() in tenths: r = k/10
FineDraws == 0..9               \* every tenth of [0, 1)

\* create_boxer arguments of the registry-and-ring specification
Args == [name: Names, weight: {130}, height: {180}, reach: {70},
         age: {20}]

\* create_boxer arguments of the fight specification: boxers of equal and
\* of different skill, the gaps from 0.2 to 2.5
FightArgs == [name: Names, weight: {130}, height: {180},
              reach: {70, 72, 80, 95}, age: {20}]

\* create_boxer arguments of the registry specification
RegistryArgs == [name: Names, weight: {124, 130, 203}, height: {180},
                 reach: {70}, age: {20, 41}]

\* create_boxer arguments of the creation specification: every field takes
\* values on both sides of each of its limits
WideArgs == [name: Names, weight: {124, 125}, height: {0, 180},
             reach: {0, 70}, age: {17, 18, 40, 41}]

NoVal == "-"
NoArgs == [name |-> NoVal]

----------------------------------------------------------------------------
(* Outcomes of a call *)

Return(v) == [exc |-> "None", msg |-> "", val |-> v]
Raise(e, m, v) == [exc |-> e, msg |-> m, val |-> v]

----------------------------------------------------------------------------
(* boxers_model.py *)

\* A get_weight_class whose heavyweight limit is exclusive.
get_weight_class_above(weight) ==
    IF weight > HEAVYWEIGHT_MIN THEN Return("HEAVYWEIGHT")
    ELSE IF weight >= MIDDLEWEIGHT_MIN THEN Return("MIDDLEWEIGHT")
    ELSE IF weight >= LIGHTWEIGHT_MIN THEN Return("LIGHTWEIGHT")
    ELSE IF weight >= FEATHERWEIGHT_MIN THEN Return("FEATHERWEIGHT")
    ELSE Raise("ValueError", "Invalid weight", weight)

get_weight_class(weight) ==
    IF weight >= HEAVYWEIGHT_MIN THEN Return("HEAVYWEIGHT")
    ELSE IF weight >= MIDDLEWEIGHT_MIN THEN Return("MIDDLEWEIGHT")
    ELSE IF weight >= LIGHTWEIGHT_MIN THEN Return("LIGHTWEIGHT")
    ELSE IF weight >= FEATHERWEIGHT_MIN THEN Return("FEATHERWEIGHT")
    ELSE Raise("ValueError", "Invalid weight", weight)

\* The dataclass: __post_init__ derives weight_class and lets its
\* ValueError through.  `class` is the Python type of the object.
Boxer(id, name, weight, height, reach, age) ==
    LET wc == get_weight_class(weight) IN
    IF wc.exc # "None" THEN wc
    ELSE Return([class |-> "Boxer", id |-> id, name |-> name, weight |-> weight,
                 height |-> height, reach |-> reach, age |-> age,
                 weight_class |-> wc.val])

\* The checks of create_boxer with reach checked before height.
ValidateBoxer_reach_first(a) ==
    IF a.weight < MIN_WEIGHT THEN Raise("ValueError", "Invalid weight", a.weight)
    ELSE IF a.reach <= 0 THEN Raise("ValueError", "Invalid reach", a.reach)
    ELSE IF a.height <= 0 THEN Raise("ValueError", "Invalid height", a.height)
    ELSE IF ~(MIN_AGE <= a.age /\ a.age <= MAX_AGE)
         THEN Raise("ValueError", "Invalid age", a.age)
    ELSE Return(NoVal)

\* The checks create_boxer makes before it touches the store.
ValidateBoxer(a) ==
    IF a.weight < MIN_WEIGHT THEN Raise("ValueError", "Invalid weight", a.weight)
    ELSE IF a.height <= 0 THEN Raise("ValueError", "Invalid height", a.height)
    ELSE IF a.reach <= 0 THEN Raise("ValueError", "Invalid reach", a.reach)
    ELSE IF ~(MIN_AGE <= a.age /\ a.age <= MAX_AGE)
         THEN Raise("ValueError", "Invalid age", a.age)
    ELSE Return(NoVal)

\* SELECT 1 FROM boxers WHERE name = ?
NameTaken(store, name) == \E i \in DOMAIN store : store[i].name = name

\* The table's INSERT: name is UNIQUE, fights and wins DEFAULT 0, the id is
\* the store's choice among the unused ones.
SqlInsert(store, id, a) ==
    IF NameTaken(store, a.name)
    THEN [exc |-> "IntegrityError", store |-> store]
    ELSE [exc |-> "None",
          store |-> [i \in DOMAIN store \cup {id} |->
                       IF i = id
                       THEN [name |-> a.name, weight |-> a.weight,
                             height |-> a.height, reach |-> a.reach,
                             age |-> a.age, fights |-> 0, wins |-> 0]
                       ELSE store[i]]]

\* The INSERT of create_boxer without the handler of sqlite3.IntegrityError:
\* the handler of sqlite3.Error re-raises it.
InsertBoxer_reraises(store, id, a) ==
    LET ins == SqlInsert(store, id, a) IN
    IF ins.exc = "IntegrityError"
    THEN Raise("IntegrityError", "UNIQUE constraint failed", a.name)
             @@ [store |-> store]
    ELSE Return(NoVal) @@ [store |-> ins.store]

\* The INSERT of create_boxer with its handler of sqlite3.IntegrityError.
InsertBoxer(store, id, a) ==
    LET ins == SqlInsert(store, id, a) IN
    IF ins.exc = "IntegrityError"
    THEN Raise("ValueError", "already exists", a.name) @@ [store |-> store]
    ELSE Return(NoVal) @@ [store |-> ins.store]

\* create_boxer up to its pre-check of the name: the field checks, then
\* SELECT 1 FROM boxers WHERE name = ? on a connection.
check_boxer(store, a) ==
    LET v == ValidateBoxer(a) IN
    IF v.exc # "None" THEN v @@ [conns |-> 0]
    ELSE IF NameTaken(store, a.name)
         THEN Raise("ValueError", "already exists", a.name) @@ [conns |-> 1]
    ELSE Return(NoVal) @@ [conns |-> 1]

\* create_boxer, run without interruption.
create_boxer(store, id, a) ==
    LET chk == check_boxer(store, a) IN
    IF chk.exc # "None" THEN chk @@ [store |-> store]
    ELSE InsertBoxer(store, id, a) @@ [conns |-> 1]

\* A delete_boxer whose DELETE has no WHERE.
delete_boxer_every_row(store, boxer_id) ==
    IF boxer_id \notin DOMAIN store
    THEN Raise("ValueError", "not found", boxer_id)
             @@ [conns |-> 1, store |-> store]
    ELSE Return(NoVal) @@ [conns |-> 1, store |-> <<>>]

delete_boxer(store, boxer_id) ==
    IF boxer_id \notin DOMAIN store
    THEN Raise("ValueError", "not found", boxer_id)
             @@ [conns |-> 1, store |-> store]
    ELSE Return(NoVal)
             @@ [conns |-> 1,
                 store |-> [i \in DOMAIN store \ {boxer_id} |-> store[i]]]

\* A get_boxer_by_id that reads height and reach from each other's column.
get_boxer_by_id_swapped(store, boxer_id) ==
    IF boxer_id \in DOMAIN store
    THEN LET row == store[boxer_id] IN
         Boxer(boxer_id, row.name, row.weight, row.reach, row.height, row.age)
    ELSE Raise("ValueError", "not found", boxer_id)

get_boxer_by_id(store, boxer_id) ==
    IF boxer_id \in DOMAIN store
    THEN LET row == store[boxer_id] IN
         Boxer(boxer_id, row.name, row.weight, row.height, row.reach, row.age)
    ELSE Raise("ValueError", "not found", boxer_id)

get_boxer_by_name(store, boxer_name) ==
    IF NameTaken(store, boxer_name)
    THEN LET i == CHOOSE j \in DOMAIN store : store[j].name = boxer_name
             row == store[i]
         IN  Boxer(i, row.name, row.weight, row.height, row.reach, row.age)
    ELSE Raise("ValueError", "not found", boxer_name)

\* The win UPDATE with fights left out of its SET.
SqlUpdateWin_wins_only(store, boxer_id) ==
    [i \in DOMAIN store |->
        IF i = boxer_id THEN [store[i] EXCEPT !.wins = @ + 1] ELSE store[i]]

\* UPDATE boxers SET fights = fights + 1, wins = wins + 1 WHERE id = ?
SqlUpdateWin(store, boxer_id) ==
    [i \in DOMAIN store |->
        IF i = boxer_id
        THEN [store[i] EXCEPT !.fights = @ + 1, !.wins = @ + 1]
        ELSE store[i]]

\* A loss UPDATE that counts a win as well.
SqlUpdateLoss_as_win(store, boxer_id) ==
    [i \in DOMAIN store |->
        IF i = boxer_id
        THEN [store[i] EXCEPT !.fights = @ + 1, !.wins = @ + 1]
        ELSE store[i]]

\* The loss UPDATE without its WHERE.
SqlUpdateLoss_every_row(store, boxer_id) ==
    [i \in DOMAIN store |-> [store[i] EXCEPT !.fights = @ + 1]]

\* UPDATE boxers SET fights = fights + 1 WHERE id = ?
SqlUpdateLoss(store, boxer_id) ==
    [i \in DOMAIN store |->
        IF i = boxer_id THEN [store[i] EXCEPT !.fights = @ + 1] ELSE store[i]]

\* An update_boxer_stats that looks the boxer up before it checks result.
update_boxer_stats_lookup_first(store, boxer_id, result) ==
    IF boxer_id \notin DOMAIN store
    THEN Raise("ValueError", "not found", boxer_id)
             @@ [conns |-> 1, store |-> store]
    ELSE IF result \notin {"win", "loss"}
    THEN Raise("ValueError", "Invalid result", result)
             @@ [conns |-> 1, store |-> store]
    ELSE IF result = "win"
    THEN Return(NoVal) @@ [conns |-> 1, store |-> SqlUpdateWin(store, boxer_id)]
    ELSE Return(NoVal) @@ [conns |-> 1, store |-> SqlUpdateLoss(store, boxer_id)]

update_boxer_stats(store, boxer_id, result) ==
    IF result \notin {"win", "loss"}
    THEN Raise("ValueError", "Invalid result", result)
             @@ [conns |-> 0, store |-> store]
    ELSE IF boxer_id \notin DOMAIN store
    THEN Raise("ValueError", "not found", boxer_id)
             @@ [conns |-> 1, store |-> store]
    ELSE IF result = "win"
    THEN Return(NoVal) @@ [conns |-> 1, store |-> SqlUpdateWin(store, boxer_id)]
    ELSE Return(NoVal) @@ [conns |-> 1, store |-> SqlUpdateLoss(store, boxer_id)]

\* WHERE fights > 0
Fought(store) == {i \in DOMAIN store : store[i].fights > 0}

\* An ORDER BY ... ASC: row i may stand before row j when its metric is
\* the smaller.
Precedes_ascending(store, sort_by, i, j) ==
    IF sort_by = "win_pct"
    THEN store[i].wins * store[j].fights <= store[j].wins * store[i].fights
    ELSE store[i].wins <= store[j].wins

\* ORDER BY win_pct DESC, ORDER BY wins DESC: row i may stand before row j.
\* win_pct is wins * 1.0 / fights, compared here by cross-multiplication.
Precedes(store, sort_by, i, j) ==
    IF sort_by = "win_pct"
    THEN store[i].wins * store[j].fights >= store[j].wins * store[i].fights
    ELSE store[i].wins >= store[j].wins

\* The orders in which the SELECT of get_leaderboard can return its rows:
\* rows of equal metric come in any order.
LeaderboardOrders(store, sort_by) ==
    IF sort_by \notin {"wins", "win_pct"} THEN {<<>>}
    ELSE LET ids == Fought(store)
             n == Cardinality(ids)
         IN  {o \in [1..n -> ids] :
                 /\ \A k, l \in 1..n : k # l => o[k] # o[l]
                 /\ \A k, l \in 1..n :
                        k < l => Precedes(store, sort_by, o[k], o[l])}

\* The dict get_leaderboard builds of a row; win_pct, round(x * 100, 1), is
\* in tenths of a percent (no quotient with fights < 16 lies halfway
\* between two tenths).
LeaderboardEntry(store, i) ==
    LET row == store[i] IN
    [id |-> i, name |-> row.name, weight |-> row.weight,
     height |-> row.height, reach |-> row.reach, age |-> row.age,
     weight_class |-> get_weight_class(row.weight).val,
     fights |-> row.fights, wins |-> row.wins,
     win_pct |-> (2000 * row.wins + row.fights) \div (2 * row.fights)]

\* get_leaderboard when the store returns its rows in the order `order`.
get_leaderboard(store, sort_by, order) ==
    IF sort_by \notin {"wins", "win_pct"}
    THEN Raise("ValueError", "Invalid sort_by", sort_by) @@ [conns |-> 0]
    ELSE Return([k \in 1..Len(order) |-> LeaderboardEntry(store, order[k])])
             @@ [conns |-> 1]

----------------------------------------------------------------------------
(* api_utils.get_random: a uniform value of [0, 1), here k/10 *)

get_random == Draws

----------------------------------------------------------------------------
(* ring_model.py *)

\* The difference of the skills taken with its sign.
Abs_signed(x) == x

Abs(x) == IF x < 0 THEN 0 - x ELSE x

\* get_fighting_skill, in tenths: reach / 10 is reach tenths.
get_fighting_skill(boxer) ==
    LET age_modifier == IF boxer.age < YOUNG_AGE THEN 0 - 1
                        ELSE IF boxer.age > OLD_AGE THEN 0 - 2 ELSE 0
    IN  10 * (boxer.weight * Len(boxer.name)) + boxer.reach + 10 * age_modifier

\* 1 / (1 + e ** (-delta)) for delta given in tenths, as the least k with
\* 1 / (1 + e ** (-delta)) <= k/10; a draw j/10 is below the logistic
\* exactly when j is below this k.
\*   ln(3/2) = 0.405,  ln(7/3) = 0.847,  ln 4 = 1.386,  ln 9 = 2.197
normalized_delta(delta) ==
    IF delta <= 0 - 22 THEN 1
    ELSE IF delta <= 0 - 14 THEN 2
    ELSE IF delta <= 0 - 9 THEN 3
    ELSE IF delta <= 0 - 5 THEN 4
    ELSE IF delta <= 0 THEN 5
    ELSE IF delta <= 4 THEN 6
    ELSE IF delta <= 8 THEN 7
    ELSE IF delta <= 13 THEN 8
    ELSE IF delta <= 21 THEN 9
    ELSE 10

\* A clear_ring that takes only the last boxer out.
clear_ring_pops(rg) == IF rg = <<>> THEN rg ELSE SubSeq(rg, 1, Len(rg) - 1)

\* A clear_ring that returns without clearing.
clear_ring_keeps(rg) == rg

clear_ring(rg) == IF rg = <<>> THEN rg ELSE <<>>

\* What clear_ring logs after "Received request to clear the ring".
clear_ring_log(rg) ==
    IF rg = <<>> THEN [level |-> "WARNING", msg |-> "Clearing an empty ring"]
    ELSE [level |-> "INFO", msg |-> "Successfully cleared the ring"]

\* An enter_ring that puts the boxer in front of the others.
enter_ring_in_front(rg, boxer) ==
    IF boxer.class # "Boxer"
    THEN Raise("TypeError", "Expected Boxer", boxer.class) @@ [ring |-> rg]
    ELSE IF Len(rg) >= 2
    THEN Raise("ValueError", "Ring is full", NoVal) @@ [ring |-> rg]
    ELSE Return(NoVal) @@ [ring |-> <<boxer>> \o rg]

\* An enter_ring whose capacity check is off by one.
enter_ring_off_by_one(rg, boxer) ==
    IF boxer.class # "Boxer"
    THEN Raise("TypeError", "Expected Boxer", boxer.class) @@ [ring |-> rg]
    ELSE IF Len(rg) > 2
    THEN Raise("ValueError", "Ring is full", NoVal) @@ [ring |-> rg]
    ELSE Return(NoVal) @@ [ring |-> Append(rg, boxer)]

enter_ring(rg, boxer) ==
    IF boxer.class # "Boxer"
    THEN Raise("TypeError", "Expected Boxer", boxer.class) @@ [ring |-> rg]
    ELSE IF Len(rg) >= 2
    THEN Raise("ValueError", "Ring is full", NoVal) @@ [ring |-> rg]
    ELSE Return(NoVal) @@ [ring |-> Append(rg, boxer)]

get_boxers(rg) == rg

\* A fight that records the loss before the win.
fight_two_loser_first(store, rg, random_number) ==
    LET boxer_1 == get_boxers(rg)[1]
        boxer_2 == get_boxers(rg)[2]
        skill_1 == get_fighting_skill(boxer_1)
        skill_2 == get_fighting_skill(boxer_2)
        delta == Abs(skill_1 - skill_2)
        first == random_number < normalized_delta(delta)
        winner == IF first THEN boxer_1 ELSE boxer_2
        loser == IF first THEN boxer_2 ELSE boxer_1
        lost == update_boxer_stats(store, loser.id, "loss")
        won == update_boxer_stats(lost.store, winner.id, "win")
    IN  IF lost.exc # "None"
        THEN [exc |-> lost.exc, msg |-> lost.msg, val |-> lost.val,
              conns |-> 1, drew |-> TRUE, store |-> lost.store, ring |-> rg]
        ELSE IF won.exc # "None"
        THEN [exc |-> won.exc, msg |-> won.msg, val |-> won.val,
              conns |-> 2, drew |-> TRUE, store |-> won.store, ring |-> rg]
        ELSE Return(winner.name)
                 @@ [conns |-> 2, drew |-> TRUE, store |-> won.store,
                     ring |-> clear_ring(rg)]

\* fight once the ring is known to hold two boxers; random_number is the
\* value get_random() returns.
fight_two(store, rg, random_number) ==
    LET boxer_1 == get_boxers(rg)[1]
        boxer_2 == get_boxers(rg)[2]
        skill_1 == get_fighting_skill(boxer_1)
        skill_2 == get_fighting_skill(boxer_2)
        delta == Abs(skill_1 - skill_2)
        first == random_number < normalized_delta(delta)
        winner == IF first THEN boxer_1 ELSE boxer_2
        loser == IF first THEN boxer_2 ELSE boxer_1
        won == update_boxer_stats(store, winner.id, "win")
        lost == update_boxer_stats(won.store, loser.id, "loss")
    IN  IF won.exc # "None"
        THEN [exc |-> won.exc, msg |-> won.msg, val |-> won.val,
              conns |-> 1, drew |-> TRUE, store |-> won.store, ring |-> rg]
        ELSE IF lost.exc # "None"
        THEN [exc |-> lost.exc, msg |-> lost.msg, val |-> lost.val,
              conns |-> 2, drew |-> TRUE, store |-> lost.store, ring |-> rg]
        ELSE Return(winner.name)
                 @@ [conns |-> 2, drew |-> TRUE, store |-> lost.store,
                     ring |-> clear_ring(rg)]

\* A fight that asks for its random number before it counts the boxers.
fight_draws_first(store, rg, random_number) ==
    IF Len(rg) < 2
    THEN Raise("ValueError", "two boxers", NoVal)
             @@ [conns |-> 0, drew |-> TRUE, store |-> store, ring |-> rg]
    ELSE fight_two(store, rg, random_number)

fight(store, rg, random_number) ==
    IF Len(rg) < 2
    THEN Raise("ValueError", "two boxers", NoVal)
             @@ [conns |-> 0, drew |-> FALSE, store |-> store, ring |-> rg]
    ELSE fight_two(store, rg, random_number)

----------------------------------------------------------------------------
(* The calls *)

Outcome(r, conns, drew) ==
    [exc |-> r.exc, msg |-> r.msg, val |-> r.val, conns |-> conns, drew |-> drew]

NotABoxer == [class |-> "dict"]

\* What a caller can pass to enter_ring: a Boxer read from the registry, or
\* something that is no Boxer.
Entrants == {get_boxer_by_id(boxers, i).val : i \in DOMAIN boxers} \cup {NotABoxer}

\* The fights counted in the rows of ids.
RECURSIVE SumFights(_, _)
SumFights(store, ids) ==
    IF ids = {} THEN 0
    ELSE LET i == CHOOSE j \in ids : TRUE
         IN  store[i].fights + SumFights(store, ids \ {i})

TotalFights(store) == SumFights(store, DOMAIN store)

CreateBoxer(a) ==
    \E id \in Ids :
        LET r == create_boxer(boxers, id, a) IN
        /\ r.exc = "None" => id \notin DOMAIN boxers
        /\ boxers' = r.store
        /\ call' = [op |-> "create_boxer", arg |-> a, step |-> "all"]
        /\ res' = Outcome(r, r.conns, FALSE)
        /\ UNCHANGED <<ring, pending>>

DeleteBoxer(boxer_id) ==
    LET r == delete_boxer(boxers, boxer_id) IN
    /\ boxers' = r.store
    /\ call' = [op |-> "delete_boxer", arg |-> boxer_id]
    /\ res' = Outcome(r, r.conns, FALSE)
    /\ UNCHANGED <<ring, pending>>

UpdateBoxerStats(boxer_id, result) ==
    LET r == update_boxer_stats(boxers, boxer_id, result) IN
    /\ TotalFights(r.store) <= MaxFights
    /\ boxers' = r.store
    /\ call' = [op |-> "update_boxer_stats",
                arg |-> [id |-> boxer_id, result |-> result]]
    /\ res' = Outcome(r, r.conns, FALSE)
    /\ UNCHANGED <<ring, pending>>

GetLeaderboard(sort_by) ==
    \E order \in LeaderboardOrders(boxers, sort_by) :
        LET r == get_leaderboard(boxers, sort_by, order) IN
        /\ call' = [op |-> "get_leaderboard", arg |-> sort_by]
        /\ res' = Outcome(r, r.conns, FALSE)
        /\ UNCHANGED <<boxers, ring, pending>>

EnterRing(boxer) ==
    LET r == enter_ring(ring, boxer) IN
    /\ ring' = r.ring
    /\ call' = [op |-> "enter_ring", arg |-> boxer]
    /\ res' = Outcome(r, 0, FALSE)
    /\ UNCHANGED <<boxers, pending>>

ClearRing ==
    /\ ring' = clear_ring(ring)
    /\ call' = [op |-> "clear_ring", arg |-> NoVal]
    /\ res' = Outcome(Return(NoVal), 0, FALSE) @@ [log |-> clear_ring_log(ring)]
    /\ UNCHANGED <<boxers, pending>>

Fight(random_number) ==
    LET r == fight(boxers, ring, random_number) IN
    /\ TotalFights(r.store) <= MaxFights
    /\ boxers' = r.store
    /\ ring' = r.ring
    /\ call' = [op |-> "fight",
                arg |-> IF r.drew THEN random_number ELSE NoVal]
    /\ res' = Outcome(r, r.conns, r.drew)
    /\ UNCHANGED pending

\* create_boxer of client c, up to and including its pre-check.  Another
\* client's statements can reach the store before this call's INSERT.
CreateBoxerSelect(c, a) ==
    LET chk == check_boxer(boxers, a) IN
    /\ pending[c] = NoArgs
    /\ call' = [op |-> "create_boxer", arg |-> a, step |-> "select"]
    /\ IF chk.exc # "None"
       THEN /\ res' = Outcome(chk, chk.conns, FALSE)
            /\ pending' = pending
       ELSE /\ res' = Outcome(Raise("Pending", "", NoVal), chk.conns, FALSE)
            /\ pending' = [pending EXCEPT ![c] = a]
    /\ UNCHANGED <<boxers, ring>>

\* The rest of create_boxer of client c: the INSERT, the commit, the handlers.
CreateBoxerInsert(c) ==
    /\ pending[c] # NoArgs
    /\ \E id \in Ids :
        LET r == InsertBoxer(boxers, id, pending[c]) IN
        /\ r.exc = "None" => id \notin DOMAIN boxers
        /\ boxers' = r.store
        /\ call' = [op |-> "create_boxer", arg |-> pending[c], step |-> "insert"]
        /\ res' = Outcome(r, 1, FALSE)
    /\ pending' = [pending EXCEPT ![c] = NoArgs]
    /\ UNCHANGED ring

\* get_weight_class(call.arg) of a call that has not returned yet.
GetWeightClass ==
    /\ call.op = "get_weight_class"
    /\ res.exc = "Pending"
    /\ res' = Outcome(get_weight_class(call.arg), 0, FALSE)
    /\ UNCHANGED <<boxers, ring, pending, call>>

----------------------------------------------------------------------------
(* The registry and the ring, one caller *)

Init ==
    /\ boxers = <<>>
    /\ ring = <<>>
    /\ pending = [c \in Clients |-> NoArgs]
    /\ call = [op |-> "none", arg |-> NoVal]
    /\ res = Outcome(Return(NoVal), 0, FALSE)

Next ==
    \/ \E a \in Args : CreateBoxer(a)
    \/ \E i \in Ids : DeleteBoxer(i)
    \/ \E i \in Ids, result \in Results : UpdateBoxerStats(i, result)
    \/ \E b \in Entrants : EnterRing(b)
    \/ ClearRing
    \/ \E k \in get_random : Fight(k)

Spec == Init /\ [][Next]_vars

----------------------------------------------------------------------------
(* Entering and clearing the ring, one caller *)

NextRing ==
    \/ \E a \in Args : CreateBoxer(a)
    \/ \E i \in Ids : DeleteBoxer(i)
    \/ \E b \in Entrants : EnterRing(b)
    \/ ClearRing

SpecRing == Init /\ [][NextRing]_vars

----------------------------------------------------------------------------
(* Fights of boxers of different skill on every draw, one caller *)

NextFight ==
    \/ \E a \in FightArgs : CreateBoxer(a)
    \/ \E b \in Entrants : EnterRing(b)
    \/ \E k \in FineDraws : Fight(k)

SpecFight == Init /\ [][NextFight]_vars

----------------------------------------------------------------------------
(* The registry alone, one caller *)

NextRegistry ==
    \/ \E a \in RegistryArgs : CreateBoxer(a)
    \/ \E i \in Ids : DeleteBoxer(i)
    \/ \E i \in Ids, result \in Results : UpdateBoxerStats(i, result)
    \/ \E sort_by \in SortKeys : GetLeaderboard(sort_by)

SpecRegistry == Init /\ [][NextRegistry]_vars

----------------------------------------------------------------------------
(* create_boxer called by two clients of one store *)

NextCreate ==
    \/ \E c \in Clients, a \in WideArgs : CreateBoxerSelect(c, a)
    \/ \E c \in Clients : CreateBoxerInsert(c)
    \/ \E i \in Ids : DeleteBoxer(i)

SpecCreate == Init /\ [][NextCreate]_vars

----------------------------------------------------------------------------
(* get_weight_class on every weight of -5..MaxProbeWeight *)

InitWeight ==
    /\ boxers = <<>>
    /\ ring = <<>>
    /\ pending = [c \in Clients |-> NoArgs]
    /\ call \in [op : {"get_weight_class"}, arg : (0 - 5)..MaxProbeWeight]
    /\ res = Outcome(Raise("Pending", "", NoVal), 0, FALSE)

NextWeight == GetWeightClass

SpecWeight == InitWeight /\ [][NextWeight]_vars

----------------------------------------------------------------------------
(* Properties of fight, Spec *)

\* Both boxers of the ring still have their row in the store.
EntrantsStored == \A k \in 1..Len(ring) : ring[k].id \in DOMAIN boxers

\* C1, as stated: every fight() on a ring of exactly 2 entrants, whatever
\* the draw, leaves the ring empty and returns the name of one of the two.
C1_FightAlwaysEmptiesRing ==
    [][(call'.op = "fight" /\ Len(ring) = 2)
        => /\ ring' = <<>>
           /\ res'.exc = "None"
           /\ res'.val \in {ring[1].name, ring[2].name}]_vars

\* C1, amended: every fight() on a ring of exactly 2 entrants whose ids both
\* have a row in the store, whatever the draw, leaves the ring empty and
\* returns the name of one of the two entrants.
C1_FightEmptiesRing ==
    [][(call'.op = "fight" /\ Len(ring) = 2 /\ EntrantsStored)
        => /\ ring' = <<>>
           /\ res'.exc = "None"
           /\ res'.val \in {ring[1].name, ring[2].name}]_vars

\* A fight has returned the name of a winner on the highest draw.
C1_Witness ==
    /\ call.op = "fight"
    /\ res.exc = "None"
    /\ call.arg = 9
    /\ res.val \in Names
    /\ ring = <<>>

\* C2: fight() on a ring of 0 or 1 entrants raises the error of too few
\* boxers, leaves the ring as it was, draws no random value and changes no
\* row of the store.
C2_FightNeedsTwo ==
    [][(call'.op = "fight" /\ Len(ring) < 2)
        => /\ res'.exc = "ValueError"
           /\ res'.msg = "two boxers"
           /\ ~res'.drew
           /\ ring' = ring
           /\ boxers' = boxers]_vars

\* A fight was refused on a ring of one boxer, with rows in the store.
C2_Witness ==
    /\ call.op = "fight"
    /\ res.msg = "two boxers"
    /\ Len(ring) = 1
    /\ boxers # <<>>

\* C3: in every state reachable by enter_ring, clear_ring and fight calls
\* from an empty ring, the ring holds 0, 1 or 2 entrants.
C3_RingAtMostTwo == Len(ring) \in {0, 1, 2}

\* An enter_ring was refused on a full ring.
C3_Witness ==
    /\ call.op = "enter_ring"
    /\ res.msg = "Ring is full"
    /\ Len(ring) = 2

----------------------------------------------------------------------------
(* Properties of update_boxer_stats, SpecRegistry, and of the counters, Spec *)

\* Row i is the same before and after the step but for its two counters,
\* which grow by df and dw.
Counted(i, df, dw) ==
    /\ i \in DOMAIN boxers'
    /\ boxers'[i] = [boxers[i] EXCEPT !.fights = boxers[i].fights + df,
                                      !.wins = boxers[i].wins + dw]

\* C4: for an existing id, update_boxer_stats(id, "win") adds exactly 1 to
\* that boxer's fights and 1 to its wins, update_boxer_stats(id, "loss")
\* adds exactly 1 to its fights and leaves its wins; every other row stays
\* as it was.
C4_UpdateStatsCounts ==
    [][(/\ call'.op = "update_boxer_stats"
        /\ call'.arg.id \in DOMAIN boxers
        /\ call'.arg.result \in {"win", "loss"})
        => /\ res'.exc = "None"
           /\ DOMAIN boxers' = DOMAIN boxers
           /\ Counted(call'.arg.id, 1,
                      IF call'.arg.result = "win" THEN 1 ELSE 0)
           /\ \A i \in DOMAIN boxers \ {call'.arg.id} :
                  boxers'[i] = boxers[i]]_vars

\* A loss was recorded for one of two boxers of the store.
C4_Witness ==
    /\ call.op = "update_boxer_stats"
    /\ call.arg.result = "loss"
    /\ res.exc = "None"
    /\ Cardinality(DOMAIN boxers) = 2

\* C5: update_boxer_stats raises the error of an invalid result for any
\* result other than "win" and "loss", before it opens a connection and so
\* whether or not the id exists; it raises the not-found error for a valid
\* result and an id no boxer has; neither changes a row of the store.
C5_UpdateStatsErrors ==
    [][call'.op = "update_boxer_stats"
        => /\ call'.arg.result \notin {"win", "loss"}
                => /\ res'.exc = "ValueError"
                   /\ res'.msg = "Invalid result"
                   /\ res'.val = call'.arg.result
                   /\ res'.conns = 0
                   /\ boxers' = boxers
           /\ (/\ call'.arg.result \in {"win", "loss"}
               /\ call'.arg.id \notin DOMAIN boxers)
                => /\ res'.exc = "ValueError"
                   /\ res'.msg = "not found"
                   /\ res'.val = call'.arg.id
                   /\ boxers' = boxers]_vars

\* An invalid result was refused for an id that no boxer of a store with
\* rows has.
C5_Witness ==
    /\ call.op = "update_boxer_stats"
    /\ call.arg.result = "draw"
    /\ call.arg.id \notin DOMAIN boxers
    /\ res.msg = "Invalid result"
    /\ boxers # <<>>

\* C6: in every state reachable from the empty store by create_boxer,
\* delete_boxer, update_boxer_stats and fight calls, every row has
\* 0 <= wins <= fights, and the row of a boxer just created has fights = 0
\* and wins = 0.
C6_WinsWithinFights ==
    /\ \A i \in DOMAIN boxers :
           0 <= boxers[i].wins /\ boxers[i].wins <= boxers[i].fights
    /\ (call.op = "create_boxer" /\ res.exc = "None")
           => \E i \in DOMAIN boxers :
                  /\ boxers[i].name = call.arg.name
                  /\ boxers[i].fights = 0
                  /\ boxers[i].wins = 0

\* A boxer was created beside one that has won every fight it had.
C6_Witness ==
    /\ call.op = "create_boxer"
    /\ res.exc = "None"
    /\ \E i \in DOMAIN boxers :
           boxers[i].wins = boxers[i].fights /\ boxers[i].fights >= 1

----------------------------------------------------------------------------
(* Properties of create_boxer, SpecCreate *)

UniqueNames ==
    \A i, j \in DOMAIN boxers : i # j => boxers[i].name # boxers[j].name

\* The fields of a are within the limits of section 4.1.
ValidFields(a) ==
    /\ a.weight >= 125
    /\ a.height > 0
    /\ a.reach > 0
    /\ 18 <= a.age /\ a.age <= 40

\* The step ends a create_boxer call by raising ValueError msg on value v
\* with conns connections opened, and no row was inserted.
CreateRefused(msg, v, conns) ==
    /\ res'.exc = "ValueError"
    /\ res'.msg = msg
    /\ res'.val = v
    /\ res'.conns = conns
    /\ boxers' = boxers

C8_CreateValidates ==
    [][(call'.op = "create_boxer" /\ call'.step \in {"select", "all"})
        => LET a == call'.arg IN
           /\ a.weight < 125
                => CreateRefused("Invalid weight", a.weight, 0)
           /\ (a.weight >= 125 /\ a.height <= 0)
                => CreateRefused("Invalid height", a.height, 0)
           /\ (a.weight >= 125 /\ a.height > 0 /\ a.reach <= 0)
                => CreateRefused("Invalid reach", a.reach, 0)
           /\ (/\ a.weight >= 125 /\ a.height > 0 /\ a.reach > 0
               /\ (a.age < 18 \/ a.age > 40))
                => CreateRefused("Invalid age", a.age, 0)
           /\ ~ValidFields(a) => pending' = pending]_vars

\* A create_boxer with height, reach and age all out of limits was refused
\* for its height.
C8_Witness ==
    /\ call.op = "create_boxer"
    /\ call.arg.weight = 125
    /\ call.arg.height = 0
    /\ call.arg.reach = 0
    /\ call.arg.age = 41
    /\ res.msg = "Invalid height"
    /\ res.val = 0
    /\ res.conns = 0

----------------------------------------------------------------------------
(* Properties of the lookups, SpecRegistry *)

\* The id of the row of the boxer just created.
AssignedId == CHOOSE i \in DOMAIN boxers : boxers[i].name = call.arg.name

\* b is the outcome of a lookup that returned a Boxer with the fields of a.
ReturnsBoxerOf(b, a) ==
    /\ b.exc = "None"
    /\ b.val.class = "Boxer"
    /\ b.val.name = a.name
    /\ b.val.weight = a.weight
    /\ b.val.height = a.height
    /\ b.val.reach = a.reach
    /\ b.val.age = a.age

\* The object v has fights and wins, both 0.
ZeroCounters(v) ==
    /\ {"fights", "wins"} \subseteq DOMAIN v
    /\ v.fights = 0
    /\ v.wins = 0

Created == call.op = "create_boxer" /\ res.exc = "None"

\* C9, as stated: after a successful create_boxer, get_boxer_by_name of the
\* name and get_boxer_by_id of the assigned id both return a Boxer whose
\* name, weight, height, reach and age are the inputs and whose fights and
\* wins are 0.
C9_LookupReturnsCounters ==
    Created =>
        /\ NameTaken(boxers, call.arg.name)
        /\ \A b \in {get_boxer_by_name(boxers, call.arg.name),
                     get_boxer_by_id(boxers, AssignedId)} :
               ReturnsBoxerOf(b, call.arg) /\ ZeroCounters(b.val)

\* C9, amended: after a successful create_boxer, get_boxer_by_name of the
\* name and get_boxer_by_id of the assigned id both return a Boxer whose id
\* is the assigned id and whose name, weight, height, reach and age are the
\* inputs; the Boxer has no fights and no wins, which are 0 in the row of
\* the store.
C9_LookupReturnsInputs ==
    Created =>
        /\ NameTaken(boxers, call.arg.name)
        /\ \A b \in {get_boxer_by_name(boxers, call.arg.name),
                     get_boxer_by_id(boxers, AssignedId)} :
               /\ ReturnsBoxerOf(b, call.arg)
               /\ b.val.id = AssignedId
               /\ DOMAIN b.val \cap {"fights", "wins"} = {}
        /\ ZeroCounters(boxers[AssignedId])

\* A heavyweight was created as the second boxer of the store.
C9_Witness ==
    /\ Created
    /\ call.arg.weight = 203
    /\ Cardinality(DOMAIN boxers) = 2

----------------------------------------------------------------------------
(* Properties of get_weight_class, SpecWeight *)

\* C10: for every integer weight w, get_weight_class(w) is HEAVYWEIGHT when
\* w >= 203, MIDDLEWEIGHT when 166 <= w <= 202, LIGHTWEIGHT when
\* 133 <= w <= 165, FEATHERWEIGHT when 125 <= w <= 132, and an error when
\* w < 125.
C10_WeightClassTable ==
    (call.op = "get_weight_class" /\ res.exc # "Pending") =>
        LET w == call.arg IN
        /\ w >= 203 => res.exc = "None" /\ res.val = "HEAVYWEIGHT"
        /\ (166 <= w /\ w <= 202) => res.exc = "None" /\ res.val = "MIDDLEWEIGHT"
        /\ (133 <= w /\ w <= 165) => res.exc = "None" /\ res.val = "LIGHTWEIGHT"
        /\ (125 <= w /\ w <= 132) => res.exc = "None" /\ res.val = "FEATHERWEIGHT"
        /\ w < 125 => res.exc = "ValueError"

\* get_weight_class has answered for the least heavyweight.
C10_Witness ==
    /\ call.op = "get_weight_class"
    /\ call.arg = 203
    /\ res.val = "HEAVYWEIGHT"

----------------------------------------------------------------------------
(* Properties of get_leaderboard, SpecRegistry *)

\* Entry e may stand before entry f under sort_by: its wins, or its wins
\* over its fights, are not the lesser.
NotBelow(sort_by, e, f) ==
    IF sort_by = "wins" THEN e.wins >= f.wins
    ELSE e.wins * f.fights >= f.wins * e.fights

----------------------------------------------------------------------------
(* Properties of enter_ring and clear_ring, SpecRing *)

\* C12: enter_ring raises TypeError for an argument that is no Boxer and
\* the ring-full error for a Boxer when the ring holds 2 entrants, and
\* leaves the ring as it was in both cases; otherwise it appends the boxer
\* behind the entrants there are, which keep their order.
C12_EnterRing ==
    [][call'.op = "enter_ring"
        => LET b == call'.arg IN
           /\ boxers' = boxers
           /\ b.class # "Boxer"
                => res'.exc = "TypeError" /\ ring' = ring
           /\ (b.class = "Boxer" /\ Len(ring) = 2)
                => /\ res'.exc = "ValueError"
                   /\ res'.msg = "Ring is full"
                   /\ ring' = ring
           /\ (b.class = "Boxer" /\ Len(ring) < 2)
                => /\ res'.exc = "None"
                   /\ Len(ring') = Len(ring) + 1
                   /\ ring'[Len(ring')] = b
                   /\ \A k \in 1..Len(ring) : ring'[k] = ring[k]]_vars

\* A second boxer has entered behind a different first one.
C12_Witness ==
    /\ call.op = "enter_ring"
    /\ res.exc = "None"
    /\ Len(ring) = 2
    /\ ring[2] = call.arg
    /\ ring[1].name # ring[2].name

\* C13: clear_ring never raises and leaves the ring empty whatever it held;
\* on an empty ring it changes neither the ring nor the store, so that a
\* second clear_ring changes nothing, and it logs the warning, which it
\* logs in no other case.
C13_ClearRing ==
    [][call'.op = "clear_ring"
        => /\ res'.exc = "None"
           /\ ring' = <<>>
           /\ boxers' = boxers
           /\ ring = <<>> => ring' = ring
           /\ res'.log.level = "WARNING" <=> ring = <<>>]_vars

\* An empty ring has been cleared, with the warning.
C13_Witness ==
    /\ call.op = "clear_ring"
    /\ res.log.level = "WARNING"
    /\ res.log.msg = "Clearing an empty ring"
    /\ ring = <<>>
    /\ boxers # <<>>

----------------------------------------------------------------------------
(* Properties of delete_boxer, SpecRegistry *)

\* C14: delete_boxer raises the not-found error and leaves the store as it
\* was when no boxer has the id; otherwise it removes the row of that id
\* and no other, leaves every other row as it was, and get_boxer_by_id of
\* the id then raises the not-found error.
C14_DeleteBoxer ==
    [][call'.op = "delete_boxer"
        => LET id == call'.arg IN
           /\ id \notin DOMAIN boxers
                => /\ res'.exc = "ValueError"
                   /\ res'.msg = "not found"
                   /\ res'.val = id
                   /\ boxers' = boxers
           /\ id \in DOMAIN boxers
                => /\ res'.exc = "None"
                   /\ DOMAIN boxers' = DOMAIN boxers \ {id}
                   /\ \A i \in DOMAIN boxers' : boxers'[i] = boxers[i]
                   /\ get_boxer_by_id(boxers', id).exc = "ValueError"
                   /\ get_boxer_by_id(boxers', id).msg = "not found"]_vars

\* One of two boxers has been deleted.
C14_Witness ==
    /\ call.op = "delete_boxer"
    /\ res.exc = "None"
    /\ Cardinality(DOMAIN boxers) = 1
    /\ call.arg \notin DOMAIN boxers

----------------------------------------------------------------------------
(* Properties of the outcome of fight, SpecFight *)

\* The gap of the skills of the two boxers of the ring, in tenths.
SkillGap ==
    LET s1 == get_fighting_skill(ring[1])
        s2 == get_fighting_skill(ring[2])
    IN  IF s1 >= s2 THEN s1 - s2 ELSE s2 - s1

\* The step is a fight that entrant k has won: its name is returned and,
\* when the other entrant is another boxer, the win is counted in its row
\* and in no other.
Won(k) ==
    /\ res'.val = ring[k].name
    /\ ring[1].id # ring[2].id
         => /\ boxers'[ring[k].id].wins = boxers[ring[k].id].wins + 1
            /\ boxers'[ring[3 - k].id].wins = boxers[ring[3 - k].id].wins

\* C15: in a fight of 2 entrants, entrant 1 wins exactly when the draw r is
\* below p, else entrant 2 wins; p, the logistic of the absolute gap of the
\* skills, is at least 0.5 for every pair, so that every draw r < 0.5 makes
\* entrant 1 win, whichever entrant has the higher skill.
C15_FirstWinsBelowP ==
    [][(call'.op = "fight" /\ Len(ring) = 2 /\ res'.exc = "None")
        => LET p == normalized_delta(SkillGap)
               r == call'.arg
           IN  /\ p >= 5
               /\ r < p => Won(1)
               /\ r >= p => Won(2)
               /\ r < 5 => Won(1)]_vars

\* On the draw 0.4 a boxer has beaten one of longer reach and otherwise its
\* like, so of higher skill.
C15_Witness ==
    /\ call.op = "fight"
    /\ res.exc = "None"
    /\ res.drew
    /\ call.arg = 4
    /\ \E i, j \in DOMAIN boxers :
           /\ boxers[i].name = res.val
           /\ boxers[i].wins = 1
           /\ boxers[j].fights = 1 /\ boxers[j].wins = 0
           /\ boxers[j].reach > boxers[i].reach
           /\ boxers[j].weight = boxers[i].weight
           /\ boxers[j].age = boxers[i].age

----------------------------------------------------------------------------
(* Properties of what fight persists, Spec *)

\* The entrant the draw of the step makes the winner, and the other one.
WinnerOfStep ==
    IF call'.arg < normalized_delta(SkillGap) THEN ring[1] ELSE ring[2]

LoserOfStep ==
    IF call'.arg < normalized_delta(SkillGap) THEN ring[2] ELSE ring[1]

\* The store with one fight and one win more in row i and nothing else
\* changed.
WinCounted(i) ==
    [boxers EXCEPT ![i] = [@ EXCEPT !.fights = @ + 1, !.wins = @ + 1]]

\* C16: fight persists the winner's win, then the loser's loss, then clears
\* the ring.  When the winner's update fails no row changes and the ring
\* keeps both entrants; when the loser's update fails the winner's fights
\* and wins increments stay, no other row changes, the error reaches the
\* caller and the ring keeps both entrants; when both succeed both rows are
\* updated and the ring is emptied.
C16_PersistOrder ==
    [][(call'.op = "fight" /\ Len(ring) = 2)
        => LET w == WinnerOfStep.id
               l == LoserOfStep.id
           IN  /\ w \notin DOMAIN boxers
                    => /\ res'.exc = "ValueError" /\ res'.msg = "not found"
                       /\ res'.val = w
                       /\ res'.conns = 1
                       /\ boxers' = boxers
                       /\ ring' = ring
               /\ (w \in DOMAIN boxers /\ l \notin DOMAIN boxers)
                    => /\ res'.exc = "ValueError" /\ res'.msg = "not found"
                       /\ res'.val = l
                       /\ res'.conns = 2
                       /\ boxers' = WinCounted(w)
                       /\ ring' = ring
               /\ (w \in DOMAIN boxers /\ l \in DOMAIN boxers)
                    => /\ res'.exc = "None"
                       /\ DOMAIN boxers' = DOMAIN boxers
                       /\ boxers'[l].fights = WinCounted(w)[l].fights + 1
                       /\ boxers'[l].wins = WinCounted(w)[l].wins
                       /\ w # l => boxers'[w] = WinCounted(w)[w]
                       /\ ring' = <<>>]_vars

\* A fight has failed on the loss of a boxer that is no longer stored, after
\* the win of the other entrant was counted; both are still in the ring.
C16_Witness ==
    /\ call.op = "fight"
    /\ res.exc = "ValueError"
    /\ res.conns = 2
    /\ Len(ring) = 2
    /\ res.val \notin DOMAIN boxers
    /\ \E k \in 1..2 :
           /\ ring[k].id = res.val
           /\ ring[3 - k].id \in DOMAIN boxers
           /\ boxers[ring[3 - k].id].wins = 1
           /\ boxers[ring[3 - k].id].fights = 1

\* The wins counted in the rows of ids.
RECURSIVE SumWins(_, _)
SumWins(store, ids) ==
    IF ids = {} THEN 0
    ELSE LET i == CHOOSE j \in ids : TRUE
         IN  store[i].wins + SumWins(store, ids \ {i})

TotalWins(store) == SumWins(store, DOMAIN store)

\* C17: a fight that returns adds exactly 2 to the fights and exactly 1 to
\* the wins counted over all rows of the store; when both entrants carry
\* the same id, the row of that id gains 2 fights and 1 win.
C17_FightAddsTwoAndOne ==
    [][(call'.op = "fight" /\ res'.exc = "None")
        => /\ DOMAIN boxers' = DOMAIN boxers
           /\ TotalFights(boxers') = TotalFights(boxers) + 2
           /\ TotalWins(boxers') = TotalWins(boxers) + 1
           /\ ring[1].id = ring[2].id
                => /\ boxers'[ring[1].id].fights = boxers[ring[1].id].fights + 2
                   /\ boxers'[ring[1].id].wins = boxers[ring[1].id].wins + 1]_vars

\* A fight has returned that gave both of its fights and its win to one row:
\* both entrants carried that row's id.
C17_Witness ==
    /\ call.op = "fight"
    /\ res.exc = "None"
    /\ TotalFights(boxers) = 2
    /\ \E i \in DOMAIN boxers :
           /\ boxers[i].fights = 2
           /\ boxers[i].wins = 1
           /\ boxers[i].name = res.val

====
